---- MODULE Spec2Model ----
(***************************************************************************)
(* Appointment reservation engine of whatsapp-saas-appointment:            *)
(*   app/services/calendar_service.py  (CalendarService: availability,     *)
(*       reserve / confirm / cancel, Google Calendar projection)           *)
(*   app/api/v1/endpoints/webhook.py   (in-memory message-id cache)        *)
(*                                                                         *)
(* Time.  Every timestamp of the program (start_time, end_time,            *)
(* expires_at, now) is an instant; the model writes instants as integers.  *)
(* The clock `now` counts minutes and takes the values of Instants.  The   *)
(* store compares start_time/end_time as timestamps, and the program       *)
(* compares expires_at with now as ISO strings of one UTC format, which    *)
(* orders them as the instants they denote.                                *)
(*                                                                         *)
(* Steps.  Each call to the store (supabase ... .execute()) and each call  *)
(* to the calendar API (service.events()...execute()) is one step of the   *)
(* calling handler, together with the local code around it.  Local code    *)
(* takes no time: datetime.now() is read in the step of the call next to   *)
(* it.  Reads of the tenants and resources tables are folded into the step *)
(* that uses them: those rows are configuration that no operation writes.  *)
(***************************************************************************)
EXTENDS Integers, Sequences, FiniteSets, TLC

\* ------------------------------------------------------------------ bounds
MaxBookings == 2      \* rows the appointments table may hold
MaxExternal == 1      \* events placed on a calendar by someone else
MaxEvents == 2        \* events the engine may create
MaxDeliveries == 5    \* webhook message deliveries
MaxMsgId == 3         \* message ids are 1..MaxMsgId
MaxRequests == 3      \* webhook requests, where requests overlap in time

\* ------------------------------------------------------- program constants
HoldMinutes == 5      \* timedelta(minutes=5)
QueueMaxLen == 2      \* deque(maxlen=1000), scaled down to the model's ids

\* --------------------------------------------------------- configuration
\* Tenants and resources are rows the engine only reads.
None == <<>>

Procs == {1, 2}

Tenants == {1, 2}

\* tenants.google_service_account_json present (tenant 2 has none: mock mode)
TenantHasCredentials(t) == t = 1

\* tenants.google_calendar_id or "primary"
TenantCalendarId(t) == <<"p", "r", "i", "m", "a", "r", "y">>

Resources == {1, 12, 3, 4}

\* resources.tenant_id
ResourceTenant(r) == IF r = 4 THEN 2 ELSE 1

\* resources.external_id, as its characters
ResourceExternalId(r) ==
    CASE r = 1  -> None
      [] r = 12 -> <<"r", "o", "o", "m">>
      [] r = 3  -> <<"d", "r", "@", "c", "a", "l">>
      [] OTHER  -> None

\* the intervals a request may name: [1,2) and [2,3) are back to back
Intervals == {<<1, 2>>, <<2, 3>>}

\* the instants the clock shows: the start, the instant a hold taken at the
\* start expires, and the minute after it
Instants == {0, HoldMinutes, HoldMinutes + 1}

Customers == {[name |-> "Ann", phone |-> "555"]}

\* ------------------------------------------------------------------ text
\* `needle in hay` of Python, on sequences of characters or tokens
Contains(hay, needle) ==
    \E i \in 0..(Len(hay) - Len(needle)) :
        \A j \in 1..Len(needle) : hay[i + j] = needle[j]

\* str(n) for a resource id
RECURSIVE Digits(_)
Digits(n) ==
    LET d == <<"0", "1", "2", "3", "4", "5", "6", "7", "8", "9">>
    IN  IF n < 10 THEN <<d[n + 1]>> ELSE Digits(n \div 10) \o <<d[(n % 10) + 1]>>

\* the literal "ResourceID:" is one token of a description
Marker == <<"ResourceID:">>

\* f"ResourceID: {resource_id}"
ResourceTag(r) == Marker \o <<" ">> \o Digits(r)

\* 'description' of the event body built by _sync_create_to_google
EventDescription(booking) ==
    <<"Phone: ", booking.customer_phone, "\n">> \o ResourceTag(booking.resource_id)

\* if resource_external_id and "@" in resource_external_id
LooksLikeCalendar(external_id) ==
    external_id # None /\ Contains(external_id, <<"@">>)

\* target_calendar_id of check_availability and _sync_create_to_google
TargetCalendarId(tenant_id, external_id) ==
    IF LooksLikeCalendar(external_id) THEN external_id
    ELSE TenantCalendarId(tenant_id)

VARIABLES
    now,                  \* datetime.now(pytz.utc)
    appointments,         \* the appointments table: row i has id i
    events,               \* the events of all Google calendars
    nextEventId,          \* ids the calendar API hands out
    call,                 \* per handler: the operation in flight and its locals
    PROCESSED_IDS,        \* webhook.py: set of message ids
    PROCESSED_IDS_QUEUE,  \* webhook.py: deque(maxlen=...)
    deliveries,           \* the gate's answers so far, one per delivered message
    requests              \* per handler: the webhook request in flight

vars == <<now, appointments, events, nextEventId, call,
          PROCESSED_IDS, PROCESSED_IDS_QUEUE, deliveries, requests>>

engineVars == <<now, appointments, events, nextEventId, call>>
gateVars == <<PROCESSED_IDS, PROCESSED_IDS_QUEUE, deliveries, requests>>

\* google_event_id values: NULL, the mock id, or an id of the calendar API
\* (of an event the engine created, or of one somebody else placed)
NoEventId == <<>>
MockEventId == <<"mock_gcal_id">>
EventId(n) == <<"evt", n>>
ExternalId(n) == <<"ext", n>>

\* what a handler holds when it has fetched or inserted no row
NoRow ==
    [id |-> 0, tenant_id |-> 0, resource_id |-> 0, customer_name |-> "",
     customer_phone |-> "", start_time |-> 0, end_time |-> 0,
     status |-> "none", expires_at |-> 0, google_event_id |-> NoEventId]

\* a handler with no operation in flight; after an operation the fields keep
\* its arguments, its locals and its result until the next one starts
\* (now_utc is the datetime.now(pytz.utc) read for expires_at)
Idle ==
    [pc |-> "idle", op |-> "none", tenant_id |-> 0, resource_id |-> 0,
     start_time |-> 0, end_time |-> 0, customer_name |-> "",
     customer_phone |-> "", id |-> 0, booking |-> NoRow,
     now_iso |-> 0, is_free |-> "none", now_utc |-> 0,
     google_event_id |-> NoEventId, result |-> "none",
     returned |-> NoRow, listed |-> {}, queryFailed |-> FALSE,
     listFailed |-> FALSE, syncCalls |-> 0, syncFailed |-> FALSE,
     deleteFailed |-> FALSE, insertFailed |-> FALSE,
     storeWrites |-> 0, created |-> 0, deleteCalls |-> 0,
     busy_slots |-> {}, caller |-> 0]

\* storeWrites, created and deleteCalls are not locals of the code: they count
\* the insert/update calls, the events created and the events().delete calls
\* the operation has issued.  queryFailed and listFailed tell that the overlap
\* query of the store, or events().list, raised; syncCalls counts the calls of
\* _sync_create_to_google and syncFailed tells that one raised; deleteFailed
\* tells that events().delete raised, insertFailed that the insert of the
\* pending row raised or returned no row.

\* The failures a specification lets the store and the calendar API show:
\*   "query"  the overlap query of check_availability raises
\*   "list"   events().list raises HttpError
\*   "list_other"  events().list raises another exception
\*   "insert" the insert of the pending row raises or returns no row
\*   "update" an update of a row raises or returns no row
\*   "sync"   the projection to the calendar raises
\*   "delete" events().delete raises although the event is there
May(F, failure) == IF failure \in F THEN BOOLEAN ELSE {FALSE}

\* a handler with no webhook request in flight.  cache is not a local of the
\* code: it keeps PROCESSED_IDS as it was when the request arrived.
NoRequest == [pc |-> "idle", msg_id |-> 0, cache |-> {}]

Init ==
    /\ now = 0
    /\ appointments = <<>>
    /\ events = {}
    /\ nextEventId = 1
    /\ call = [p \in Procs |-> Idle]
    /\ PROCESSED_IDS = {}
    /\ PROCESSED_IDS_QUEUE = <<>>
    /\ deliveries = <<>>
    /\ requests = [p \in Procs |-> NoRequest]

InFlight(p) == call[p].pc # "idle"

\* ------------------------------------------------------------ local store
\* the overlap test with closed bounds (.lte / .gte): back-to-back intervals
\* would count as overlapping
OverlapsClosed(existing_start, existing_end, start_time, end_time) ==
    existing_start <= end_time /\ existing_end >= start_time

\* .lt("start_time", end_time).gt("end_time", start_time)
Overlaps(existing_start, existing_end, start_time, end_time) ==
    existing_start < end_time /\ existing_end > start_time

\* the rows the overlap query of check_availability returns
OverlappingRows(tenant_id, resource_id, start_time, end_time) ==
    {i \in DOMAIN appointments :
        /\ appointments[i].tenant_id = tenant_id
        /\ appointments[i].resource_id = resource_id
        /\ Overlaps(appointments[i].start_time, appointments[i].end_time,
                    start_time, end_time)}

\* the loop body without the expires_at test: every pending row would block
RowBlocksIgnoringExpiry(booking, now_iso) ==
    booking.status \in {"confirmed", "pending"}

\* the loop body over res.data: a confirmed row blocks, a pending row blocks
\* while expires_at > now_iso
RowBlocks(booking, now_iso) ==
    \/ booking.status = "confirmed"
    \/ booking.status = "pending" /\ booking.expires_at > now_iso

\* -------------------------------------------------------- Google Calendar
\* events().list(calendarId, timeMin, timeMax): the events of that calendar
\* that end after timeMin and start before timeMax
ListEvents(calendarId, timeMin, timeMax) ==
    {e \in events : /\ e.calendarId = calendarId
                    /\ e.end > timeMin
                    /\ e.start < timeMax}

\* the loop body with the test of the description alone, on every calendar
EventBlocksByTag(event, target_calendar_id, tenant_calendar_id, resource_id) ==
    \/ ~Contains(event.description, Marker)
    \/ Contains(event.description, ResourceTag(resource_id))

\* the loop body over events: on the resource's own calendar every event
\* blocks; on the tenant calendar an event blocks when its description has no
\* "ResourceID:" or contains f"ResourceID: {resource_id}"
EventBlocks(event, target_calendar_id, tenant_calendar_id, resource_id) ==
    \/ target_calendar_id # tenant_calendar_id
    \/ ~Contains(event.description, Marker)
    \/ Contains(event.description, ResourceTag(resource_id))

\* supabase.table("appointments").select("*").eq("id", id).single().execute()
FetchRow(id) == IF id \in DOMAIN appointments THEN appointments[id] ELSE NoRow

\* the fetch taken to have found a row whatever it returned
FoundAlways(booking) == TRUE

\* if not res.data: (raise ValueError("Reservation not found.") in confirm,
\* return False in cancel)
Found(booking) == booking # NoRow

\* ------------------------------------------------------ reserve_appointment
\* is_free = await self.check_availability(...); if not is_free: raise
\* ValueError("Slot is not available.") -- without the test of is_free
ReserveRouteAlways(is_free) == "insert"

\* is_free = await self.check_availability(...); if not is_free: raise
\* ValueError("Slot is not available.")
ReserveRoute(is_free) == IF is_free THEN "insert" ELSE "SlotUnavailable"

\* the handler after check_availability has returned is_free
AfterCheck(c, is_free) ==
    LET got == [c EXCEPT !.is_free = IF is_free THEN "True" ELSE "False"]
    IN  IF ReserveRoute(is_free) = "insert"
        THEN [got EXCEPT !.pc = "insert"]
        ELSE [got EXCEPT !.pc = "idle", !.result = "SlotUnavailable"]

\* a check that sweeps: the pending rows past their expiry are rewritten
\* with the status expired
RowsAfterCheckSweeps(rows, now_iso) ==
    [i \in DOMAIN rows |->
        IF rows[i].status = "pending" /\ rows[i].expires_at < now_iso
        THEN [rows[i] EXCEPT !.status = "expired"]
        ELSE rows[i]]

\* the table after check_availability: its only store call on appointments
\* is a select, the rows are skipped in the loop and never written
RowsAfterCheck(rows, now_iso) == rows

\* No more rows than MaxBookings: a reserve starts only if its insert fits.
ReservesInFlight == Cardinality({q \in Procs : call[q].op = "reserve" /\ InFlight(q)})

\* reserve_appointment up to the store query of check_availability and the
\* loop over its rows.  A query that raises is logged and the check goes on.
reserve_check_db(p, R, F) ==
    /\ ~InFlight(p)
    /\ Len(appointments) + ReservesInFlight < MaxBookings
    /\ \E r \in R, iv \in Intervals, c \in Customers, queryFails \in May(F, "query") :
        LET tenant_id == ResourceTenant(r)
            now_iso == now
            rows == OverlappingRows(tenant_id, r, iv[1], iv[2])
            blocked == ~queryFails /\ \E i \in rows : RowBlocks(appointments[i], now_iso)
            started == [Idle EXCEPT !.op = "reserve", !.tenant_id = tenant_id,
                                    !.resource_id = r, !.start_time = iv[1],
                                    !.end_time = iv[2], !.customer_name = c.name,
                                    !.customer_phone = c.phone, !.now_iso = now_iso,
                                    !.queryFailed = queryFails]
        IN  /\ call' = [call EXCEPT ![p] =
                    IF blocked
                    THEN AfterCheck(started, FALSE)
                    ELSE [started EXCEPT !.pc = "check_gcal"]]
            /\ appointments' = RowsAfterCheck(appointments, now_iso)
    /\ UNCHANGED <<now, events, nextEventId>>
    /\ UNCHANGED gateVars

\* check_availability from the resource lookup to its return, then the raise
\* of reserve_appointment when the slot is not free.  An HttpError of the list
\* call is logged and the check answers True; any other exception leaves
\* check_availability and reserve_appointment.
reserve_check_gcal(p, F) ==
    /\ call[p].pc = "check_gcal"
    /\ \E httpError \in May(F, "list"), otherError \in May(F, "list_other") :
        LET c == call[p]
            use_mock == ~TenantHasCredentials(c.tenant_id)
            tenant_calendar_id == TenantCalendarId(c.tenant_id)
            target_calendar_id ==
                TargetCalendarId(c.tenant_id, ResourceExternalId(c.resource_id))
            listed == ListEvents(target_calendar_id, c.start_time, c.end_time)
            blocked == \E e \in listed :
                EventBlocks(e, target_calendar_id, tenant_calendar_id, c.resource_id)
        IN  /\ ~(httpError /\ otherError)
            /\ use_mock => ~httpError /\ ~otherError
            /\ call' = [call EXCEPT ![p] =
                    IF use_mock THEN AfterCheck(c, TRUE)
                    ELSE IF otherError
                         THEN [c EXCEPT !.pc = "idle", !.result = "Error",
                                        !.listFailed = TRUE]
                    ELSE IF httpError
                         THEN AfterCheck([c EXCEPT !.listFailed = TRUE], TRUE)
                    ELSE AfterCheck([c EXCEPT !.listed = listed], ~blocked)]
    /\ UNCHANGED <<now, appointments, events, nextEventId>>
    /\ UNCHANGED gateVars

\* the row with expires_at = now: a hold of no length
PendingRowWithoutHold(c, id, now_utc) ==
    [id |-> id, tenant_id |-> c.tenant_id, resource_id |-> c.resource_id,
     customer_name |-> c.customer_name, customer_phone |-> c.customer_phone,
     start_time |-> c.start_time, end_time |-> c.end_time,
     status |-> "pending", expires_at |-> now_utc,
     google_event_id |-> NoEventId]

\* the row reserve_appointment inserts
PendingRow(c, id, now_utc) ==
    [id |-> id, tenant_id |-> c.tenant_id, resource_id |-> c.resource_id,
     customer_name |-> c.customer_name, customer_phone |-> c.customer_phone,
     start_time |-> c.start_time, end_time |-> c.end_time,
     status |-> "pending", expires_at |-> now_utc + HoldMinutes,
     google_event_id |-> NoEventId]

\* a rejected insert that leaves its row in the table all the same
RowsAfterRejectedInsertKept(rows, res_obj) == Append(rows, res_obj)

\* the table after an insert the store rejected: as it was
RowsAfterRejectedInsert(rows, res_obj) == rows

\* reserve_appointment step 3: the insert.  A failed insert is logged and
\* raised again.
reserve_insert(p, F) ==
    /\ call[p].pc = "insert"
    /\ \E insertFails \in May(F, "insert") :
        LET c == call[p]
            res_obj == PendingRow(c, Len(appointments) + 1, now)
        IN  IF insertFails
            THEN /\ call' = [call EXCEPT ![p] =
                        [c EXCEPT !.pc = "idle", !.result = "Error",
                                  !.now_utc = now, !.insertFailed = TRUE,
                                  !.storeWrites = c.storeWrites + 1]]
                 /\ appointments' = RowsAfterRejectedInsert(appointments, res_obj)
            ELSE /\ appointments' = Append(appointments, res_obj)
                 /\ call' = [call EXCEPT ![p] =
                        [c EXCEPT !.pc = "idle", !.result = "ok",
                                  !.now_utc = now,
                                  !.id = res_obj.id, !.returned = res_obj,
                                  !.storeWrites = c.storeWrites + 1]]
    /\ UNCHANGED <<now, events, nextEventId>>
    /\ UNCHANGED gateVars

\* ------------------------------------------------------ confirm_appointment
\* New event ids stay within MaxEvents: a confirm starts only if its event fits.
ConfirmsInFlight == Cardinality({q \in Procs : call[q].op = "confirm" /\ InFlight(q)})

\* if booking['expires_at'] and booking['expires_at'] < now_iso
ExpiredForConfirm(booking, now_iso) == booking.expires_at < now_iso

\* the validation without the test for a cancelled row
ConfirmRouteCancelledPasses(booking, now_iso) ==
    IF booking.status = "confirmed" THEN "return"
    ELSE IF booking.expires_at < now_iso THEN "c_expire"
    ELSE "c_sync"

\* the validation without the early return for a confirmed row
ConfirmRouteWithoutReturn(booking, now_iso) ==
    IF booking.status = "cancelled" THEN "InvalidState"
    ELSE IF booking.expires_at < now_iso THEN "c_expire"
    ELSE "c_sync"

\* confirm_appointment step 2, the validation of status and expiry: where the
\* fetched row sends the operation
ConfirmRoute(booking, now_iso) ==
    IF booking.status = "confirmed" THEN "return"
    ELSE IF booking.status = "cancelled" THEN "InvalidState"
    ELSE IF ExpiredForConfirm(booking, now_iso) THEN "c_expire"
    ELSE "c_sync"

\* confirm_appointment steps 1 and 2: fetch the row, validate it
confirm_fetch(p) ==
    /\ ~InFlight(p)
    /\ nextEventId + ConfirmsInFlight <= MaxEvents
    /\ \E reservation_id \in 1..MaxBookings :
        LET started == [Idle EXCEPT !.op = "confirm", !.id = reservation_id,
                                    !.now_iso = now]
            booking == FetchRow(reservation_id)
        IN  call' = [call EXCEPT ![p] =
                IF ~Found(booking)
                THEN [started EXCEPT !.result = "NotFound"]
                ELSE LET got == [started EXCEPT !.booking = booking]
                         route == ConfirmRoute(booking, now)
                     IN  IF route = "return"
                         THEN [got EXCEPT !.result = "ok", !.returned = booking]
                         ELSE IF route = "InvalidState"
                         THEN [got EXCEPT !.result = "InvalidState"]
                         ELSE [got EXCEPT !.pc = route]]
    /\ UNCHANGED <<now, appointments, events, nextEventId>>
    /\ UNCHANGED gateVars

\* the auto-cancel of an expired reservation, then raise "Reservation expired."
\* If the update raises, that exception leaves confirm instead.
confirm_expire(p, F) ==
    /\ call[p].pc = "c_expire"
    /\ \E updateFails \in May(F, "update") :
        LET c == call[p]
        IN  IF updateFails
            THEN /\ call' = [call EXCEPT ![p] =
                        [c EXCEPT !.pc = "idle", !.result = "Error",
                                  !.storeWrites = c.storeWrites + 1]]
                 /\ UNCHANGED appointments
            ELSE /\ appointments' =
                        [appointments EXCEPT ![c.id].status = "cancelled"]
                 /\ call' = [call EXCEPT ![p] =
                        [c EXCEPT !.pc = "idle", !.result = "Expired",
                                  !.storeWrites = c.storeWrites + 1]]
    /\ UNCHANGED <<now, events, nextEventId>>
    /\ UNCHANGED gateVars

\* the event inserted on the tenant calendar whatever the resource
CreatedEventOnTenantCalendar(booking, n) ==
    [id |-> EventId(n),
     calendarId |-> TenantCalendarId(booking.tenant_id),
     description |-> EventDescription(booking),
     start |-> booking.start_time, end |-> booking.end_time,
     bookingRef |-> booking.id]

\* the event _sync_create_to_google inserts; bookingRef is not a field of the
\* calendar: it records which row the event was created for
CreatedEvent(booking, n) ==
    [id |-> EventId(n),
     calendarId |-> TargetCalendarId(booking.tenant_id,
                                     ResourceExternalId(booking.resource_id)),
     description |-> EventDescription(booking),
     start |-> booking.start_time, end |-> booking.end_time,
     bookingRef |-> booking.id]

\* an exception of the projection leaving confirm_appointment
SyncFailureRaises == "Error"

\* except Exception as e: logger.exception(...) -- confirm goes on to step 4
SyncFailureRoute == "c_update"

\* confirm_appointment step 3: _sync_create_to_google inside try/except.  An
\* exception of the projection is logged and confirm goes on with
\* google_event_id = None.
confirm_sync(p, F) ==
    /\ call[p].pc = "c_sync"
    /\ \E syncFails \in May(F, "sync") :
        LET c == call[p]
            use_mock == ~TenantHasCredentials(c.booking.tenant_id)
        IN  /\ use_mock => ~syncFails
            /\ IF use_mock
               THEN /\ call' = [call EXCEPT ![p] =
                            [c EXCEPT !.pc = "c_update",
                                      !.google_event_id = MockEventId,
                                      !.syncCalls = c.syncCalls + 1]]
                    /\ UNCHANGED <<events, nextEventId>>
               ELSE IF syncFails
               THEN /\ call' = [call EXCEPT ![p] =
                            IF SyncFailureRoute = "c_update"
                            THEN [c EXCEPT !.pc = "c_update",
                                           !.google_event_id = NoEventId,
                                           !.syncCalls = c.syncCalls + 1,
                                           !.syncFailed = TRUE]
                            ELSE [c EXCEPT !.pc = "idle", !.result = "Error",
                                           !.syncCalls = c.syncCalls + 1,
                                           !.syncFailed = TRUE]]
                    /\ UNCHANGED <<events, nextEventId>>
               ELSE /\ events' = events \cup {CreatedEvent(c.booking, nextEventId)}
                    /\ nextEventId' = nextEventId + 1
                    /\ call' = [call EXCEPT ![p] =
                            [c EXCEPT !.pc = "c_update",
                                      !.google_event_id = EventId(nextEventId),
                                      !.syncCalls = c.syncCalls + 1,
                                      !.created = c.created + 1]]
    /\ UNCHANGED <<now, appointments>>
    /\ UNCHANGED gateVars

\* confirm_appointment step 4: update the row to confirmed.  If the update
\* raises or returns no row, confirm raises.
confirm_update(p, F) ==
    /\ call[p].pc = "c_update"
    /\ \E updateFails \in May(F, "update") :
        LET c == call[p]
            updated == [appointments[c.id] EXCEPT
                            !.status = "confirmed",
                            !.google_event_id = c.google_event_id]
        IN  IF updateFails
            THEN /\ call' = [call EXCEPT ![p] =
                        [c EXCEPT !.pc = "idle", !.result = "Error",
                                  !.storeWrites = c.storeWrites + 1]]
                 /\ UNCHANGED appointments
            ELSE /\ appointments' = [appointments EXCEPT ![c.id] = updated]
                 /\ call' = [call EXCEPT ![p] =
                        [c EXCEPT !.pc = "idle", !.result = "ok",
                                  !.returned = updated,
                                  !.storeWrites = c.storeWrites + 1]]
    /\ UNCHANGED <<now, events, nextEventId>>
    /\ UNCHANGED gateVars

\* ------------------------------------------------------- cancel_appointment
\* cancel_appointment step 1: fetch the row
cancel_fetch(p) ==
    /\ ~InFlight(p)
    /\ \E appointment_id \in 1..MaxBookings :
        LET started == [Idle EXCEPT !.op = "cancel", !.id = appointment_id,
                                    !.now_iso = now]
            booking == FetchRow(appointment_id)
        IN  call' = [call EXCEPT ![p] =
                IF ~Found(booking)
                THEN [started EXCEPT !.result = "NotFound"]
                ELSE [started EXCEPT !.pc = "x_update", !.booking = booking]]
    /\ UNCHANGED <<now, appointments, events, nextEventId>>
    /\ UNCHANGED gateVars

\* if booking.get('google_event_id'), and then: if not use_mock
DeletesEvent(booking) ==
    /\ booking.google_event_id # NoEventId
    /\ TenantHasCredentials(booking.tenant_id)

\* cancel_appointment step 2: update the row to cancelled.  If the update
\* raises, cancel logs it and returns False.
cancel_update(p, F) ==
    /\ call[p].pc = "x_update"
    /\ \E updateFails \in May(F, "update") :
        LET c == call[p]
        IN  IF updateFails
            THEN /\ call' = [call EXCEPT ![p] =
                        [c EXCEPT !.pc = "idle", !.result = "Error",
                                  !.storeWrites = c.storeWrites + 1]]
                 /\ UNCHANGED appointments
            ELSE /\ appointments' =
                        [appointments EXCEPT ![c.id].status = "cancelled"]
                 /\ call' = [call EXCEPT ![p] =
                        IF DeletesEvent(c.booking)
                        THEN [c EXCEPT !.pc = "x_delete",
                                       !.storeWrites = c.storeWrites + 1]
                        ELSE [c EXCEPT !.pc = "idle", !.result = "ok",
                                       !.storeWrites = c.storeWrites + 1]]
    /\ UNCHANGED <<now, events, nextEventId>>
    /\ UNCHANGED gateVars

\* calendarId of the delete call: the calendar_id get_service_for_tenant returns
DeleteCalendarId(booking) == TenantCalendarId(booking.tenant_id)

\* an exception of events().delete making cancel report failure
DeleteFailureReturnsFalse == "Error"

\* except Exception as e: logger.exception(...), then return True
DeleteFailureResult == "ok"

\* cancel_appointment step 3: events().delete inside try/except.  The call
\* removes the event when that calendar holds it and raises otherwise; the
\* exception is logged and cancel returns True.
cancel_delete(p, F) ==
    /\ call[p].pc = "x_delete"
    /\ \E deleteFails \in May(F, "delete") :
        LET c == call[p]
            hit == {e \in events : /\ e.id = c.booking.google_event_id
                                   /\ e.calendarId = DeleteCalendarId(c.booking)}
            raised == deleteFails \/ hit = {}
        IN  /\ events' = IF deleteFails THEN events ELSE events \ hit
            /\ call' = [call EXCEPT ![p] =
                    [c EXCEPT !.pc = "idle",
                              !.result = IF raised THEN DeleteFailureResult ELSE "ok",
                              !.deleteFailed = raised,
                              !.deleteCalls = c.deleteCalls + 1]]
    /\ UNCHANGED <<now, appointments, nextEventId>>
    /\ UNCHANGED gateVars

\* ------------------------------------- appointments.py: cancel_appointment_api
\* the endpoint without the comparison of the row's tenant with the caller's
ApiRouteWithoutOwnerCheck(row, tenant_id) ==
    IF ~Found(row) THEN "NotFound" ELSE "cancel"

\* if not appt_res.data: raise HTTPException(404); if
\* appt_res.data[0]["tenant_id"] != tenant_id: raise HTTPException(403);
\* else calendar_service.cancel_appointment(appointment_id)
ApiRoute(row, tenant_id) ==
    IF ~Found(row) THEN "NotFound"
    ELSE IF row.tenant_id # tenant_id THEN "NotAuthorized"
    ELSE "cancel"

\* DELETE /{appointment_id} by a user whose tenant is one of T: the lookup of
\* the row's tenant_id, the answers 404 and 403, and for the caller's own row
\* cancel_appointment up to its fetch (the calls between are synchronous);
\* cancel_update and cancel_delete carry on from there.  caller is the
\* tenant_id of current_user.
cancel_appointment_api(p, T) ==
    /\ ~InFlight(p)
    /\ \E tenant_id \in T, appointment_id \in 1..MaxBookings :
        LET started == [Idle EXCEPT !.op = "cancel", !.id = appointment_id,
                                    !.now_iso = now, !.caller = tenant_id]
            row == FetchRow(appointment_id)
            route == ApiRoute(row, tenant_id)
        IN  call' = [call EXCEPT ![p] =
                IF route = "cancel"
                THEN [started EXCEPT !.pc = "x_update", !.booking = row]
                ELSE [started EXCEPT !.result = route]]
    /\ UNCHANGED <<now, appointments, events, nextEventId>>
    /\ UNCHANGED gateVars

\* ------------------------------------------- agent.py: check_availability
\* day_start = f"{date_str}T00:00:00", day_end = f"{date_str}T23:59:59": the
\* day that holds every interval of Intervals
day_start == 0

day_end == 4

\* the rows the tool's query returns: .eq tenant_id, .eq resource_id,
\* .in_("status", ["confirmed", "pending"]), .lt("start_time", day_end),
\* .gt("end_time", day_start)
DayRows(tenant_id, resource_id) ==
    {i \in DOMAIN appointments :
        /\ appointments[i].tenant_id = tenant_id
        /\ appointments[i].resource_id = resource_id
        /\ appointments[i].status \in {"confirmed", "pending"}
        /\ appointments[i].start_time < day_end
        /\ appointments[i].end_time > day_start}

\* The tool of the conversational layer that lists the busy intervals of a
\* resource on a day: one entry per row the query returned, labelled with the
\* row's status, then, unless the tenant is in mock mode, one entry labelled
\* External per listed event that is not tagged for another resource.  row is
\* not part of the entry: it records which row the entry was built from.
agent_check_availability(p, R) ==
    /\ ~InFlight(p)
    /\ \E r \in R :
        LET tenant_id == ResourceTenant(r)
            use_mock == ~TenantHasCredentials(tenant_id)
            tenant_cal_id == TenantCalendarId(tenant_id)
            target_cal == TargetCalendarId(tenant_id, ResourceExternalId(r))
            from_rows ==
                {[start |-> appointments[i].start_time,
                  end |-> appointments[i].end_time,
                  label |-> appointments[i].status, row |-> i] :
                    i \in DayRows(tenant_id, r)}
            kept == {e \in ListEvents(target_cal, day_start, day_end) :
                        EventBlocks(e, target_cal, tenant_cal_id, r)}
            from_events ==
                IF use_mock THEN {}
                ELSE {[start |-> e.start, end |-> e.end,
                       label |-> "External", row |-> 0] : e \in kept}
        IN  call' = [call EXCEPT ![p] =
                [Idle EXCEPT !.op = "availability", !.tenant_id = tenant_id,
                             !.resource_id = r, !.now_iso = now,
                             !.result = "ok",
                             !.busy_slots = from_rows \cup from_events]]
    /\ UNCHANGED <<now, appointments, events, nextEventId>>
    /\ UNCHANGED gateVars

\* ------------------------------------------------------------ environment
\* Someone else places an event on a calendar the engine reads: without a
\* description, or with the tag of a resource.  The engine never reads the id
\* of such an event; the id here is told by the event's slot and tag.
\* Tagged says which kinds a specification lets appear: TRUE for events with
\* the tag of a resource of R, FALSE for events without a description.  The
\* event is on the calendar of a resource r of R and its tag names a resource
\* t of R.
ExternalEvent(R, Tagged) ==
    /\ Cardinality({e \in events : e.bookingRef = 0}) < MaxExternal
    /\ \E r \in R, t \in R, iv \in Intervals, tagged \in Tagged :
        events' = events \cup
            {[id |-> ExternalId(2 * iv[1] + (IF tagged THEN 1 ELSE 0)),
              calendarId |-> TargetCalendarId(ResourceTenant(r), ResourceExternalId(r)),
              description |-> IF tagged THEN ResourceTag(t) ELSE <<>>,
              start |-> iv[1], end |-> iv[2], bookingRef |-> 0]}
    /\ UNCHANGED <<now, appointments, nextEventId, call>>
    /\ UNCHANGED gateVars

\* ------------------------------------------------------------------ clock
Tick ==
    /\ \E t \in Instants : t > now /\ (\A u \in Instants : u > now => t <= u) /\ now' = t
    /\ UNCHANGED <<appointments, events, nextEventId, call>>
    /\ UNCHANGED gateVars

\* ----------------------------------------------------------- handle_webhook
\* the id is put on the queue only, the set is left as it was
AddProcessedForgets(ids, msg_id) == ids

\* PROCESSED_IDS.add(msg_id)
AddProcessed(ids, msg_id) == ids \cup {msg_id}

\* PROCESSED_IDS_QUEUE.append(msg_id) on a deque(maxlen=QueueMaxLen): a full
\* deque drops its oldest entry
QueueAppend(queue, msg_id) ==
    IF Len(queue) >= QueueMaxLen
    THEN Append(Tail(queue), msg_id)
    ELSE Append(queue, msg_id)

\* a skip that puts the id on the queue again, as its newest entry
QueueAfterSkipReinserts(queue, msg_id) == QueueAppend(queue, msg_id)

\* if msg_id in PROCESSED_IDS: logger.info(...); continue -- the queue is
\* not touched
QueueAfterSkip(queue, msg_id) == queue

\* the second loop of handle_webhook, `for message in messages`: every message
\* of the delivery that is a text with a body is logged inbound, handed to the
\* agent and answered.  The `continue` of the deduplication check leaves an
\* iteration of the first loop only; this loop asks nothing of the cache.
Processes(seen, is_text) == is_text

\* handle_webhook for a delivery of one message of a known tenant: the
\* in-memory deduplication check (a cached id is skipped, a new id is added to
\* the set and to the queue; the body of `if len(PROCESSED_IDS) > 1000` is
\* `pass`), then the processing loop.  deliveries keeps, for each message, the
\* answer of the check and whether the message was processed.
handle_webhook(msg_id, is_text) ==
    /\ Len(deliveries) < MaxDeliveries
    /\ LET seen == msg_id \in PROCESSED_IDS
           delivery == [id |-> msg_id, seen |-> seen,
                        processed |-> Processes(seen, is_text)]
       IN  IF seen
           THEN /\ deliveries' = Append(deliveries, delivery)
                /\ PROCESSED_IDS_QUEUE' = QueueAfterSkip(PROCESSED_IDS_QUEUE, msg_id)
                /\ UNCHANGED PROCESSED_IDS
           ELSE /\ PROCESSED_IDS' = AddProcessed(PROCESSED_IDS, msg_id)
                /\ PROCESSED_IDS_QUEUE' = QueueAppend(PROCESSED_IDS_QUEUE, msg_id)
                /\ deliveries' = Append(deliveries, delivery)
    /\ UNCHANGED requests
    /\ UNCHANGED engineVars

\* handle_webhook with requests that overlap.  It is a coroutine of one event
\* loop: another request runs only while this one waits in an `await`.  The
\* awaits are request.json() before the deduplication loop, and log_message,
\* agent.get_response and send_text_message in the processing loop.

\* a request arrives and waits in `await request.json()`
webhook_receive(p, msg_id) ==
    /\ requests[p].pc = "idle"
    /\ Len(deliveries) + Cardinality({q \in Procs : requests[q].pc = "json"})
            < MaxRequests
    /\ requests' = [requests EXCEPT ![p] =
            [pc |-> "json", msg_id |-> msg_id, cache |-> PROCESSED_IDS]]
    /\ UNCHANGED <<PROCESSED_IDS, PROCESSED_IDS_QUEUE, deliveries>>
    /\ UNCHANGED engineVars

\* the membership test reading the set as it was when the request arrived
CacheAtReceive(p) == requests[p].cache

\* `msg_id in PROCESSED_IDS` reads the set as it is when the loop runs
CacheAtCheck(p) == PROCESSED_IDS

\* from the return of request.json() to the first await of the processing
\* loop: the deduplication loop, with no await between its test and its add
webhook_dedup(p) ==
    /\ requests[p].pc = "json"
    /\ LET msg_id == requests[p].msg_id
           seen == msg_id \in CacheAtCheck(p)
           delivery == [id |-> msg_id, seen |-> seen,
                        processed |-> Processes(seen, TRUE)]
       IN  IF seen
           THEN /\ deliveries' = Append(deliveries, delivery)
                /\ PROCESSED_IDS_QUEUE' = QueueAfterSkip(PROCESSED_IDS_QUEUE, msg_id)
                /\ UNCHANGED PROCESSED_IDS
           ELSE /\ PROCESSED_IDS' = AddProcessed(PROCESSED_IDS, msg_id)
                /\ PROCESSED_IDS_QUEUE' = QueueAppend(PROCESSED_IDS_QUEUE, msg_id)
                /\ deliveries' = Append(deliveries, delivery)
    /\ requests' = [requests EXCEPT ![p].pc = "process"]
    /\ UNCHANGED engineVars

\* the awaits of the processing loop, to the return of the handler
webhook_process(p) ==
    /\ requests[p].pc = "process"
    /\ requests' = [requests EXCEPT ![p] = NoRequest]
    /\ UNCHANGED <<PROCESSED_IDS, PROCESSED_IDS_QUEUE, deliveries>>
    /\ UNCHANGED engineVars

\* ---------------------------------------------------------- specifications
\* The engine with handlers P working on the resources R, the store and the
\* calendar API showing the failures F, while others place events tagged for
\* a resource of R on the calendar.
EngineNext(P, R, F) ==
    \/ \E p \in P : reserve_check_db(p, R, F)
    \/ \E p \in P : reserve_check_gcal(p, F)
    \/ \E p \in P : reserve_insert(p, F)
    \/ \E p \in P : confirm_fetch(p)
    \/ \E p \in P : confirm_expire(p, F)
    \/ \E p \in P : confirm_sync(p, F)
    \/ \E p \in P : confirm_update(p, F)
    \/ \E p \in P : cancel_fetch(p)
    \/ \E p \in P : cancel_update(p, F)
    \/ \E p \in P : cancel_delete(p, F)
    \/ ExternalEvent(R, {TRUE})
    \/ Tick

\* One handler at a time, every call succeeding: any sequence of reserve,
\* confirm, cancel and clock advances on a resource of the shared calendar.
Next == EngineNext({1}, {1}, {})

Spec == Init /\ [][Next]_vars

\* The same, with the overlap query of check_availability able to raise.
NextQueryFails == EngineNext({1}, {1}, {"query"})

SpecQueryFails == Init /\ [][NextQueryFails]_vars

\* The same, with events().list able to raise: an HttpError, or an exception
\* of another class (no connection, a timeout, a refused token).
NextListFails == EngineNext({1}, {1}, {"list", "list_other"})

SpecListFails == Init /\ [][NextListFails]_vars

\* Reserve, confirm, cancel and the clock, with the projection to the calendar
\* able to raise.
NextSyncFails ==
    \/ reserve_check_db(1, {1}, {})
    \/ reserve_check_gcal(1, {})
    \/ reserve_insert(1, {})
    \/ confirm_fetch(1)
    \/ confirm_expire(1, {})
    \/ confirm_sync(1, {"sync"})
    \/ confirm_update(1, {})
    \/ cancel_fetch(1)
    \/ cancel_update(1, {})
    \/ cancel_delete(1, {})
    \/ Tick

SpecSyncFails == Init /\ [][NextSyncFails]_vars

\* Reserve, confirm, cancel and the clock, with events().delete able to raise
\* while the event is there.
NextDeleteFails ==
    \/ reserve_check_db(1, {1}, {})
    \/ reserve_check_gcal(1, {})
    \/ reserve_insert(1, {})
    \/ confirm_fetch(1)
    \/ confirm_expire(1, {})
    \/ confirm_sync(1, {})
    \/ confirm_update(1, {})
    \/ cancel_fetch(1)
    \/ cancel_update(1, {})
    \/ cancel_delete(1, {"delete"})
    \/ Tick

SpecDeleteFails == Init /\ [][NextDeleteFails]_vars

\* Reserve, cancel and the clock, with the store able to reject the insert of
\* the pending row.  No booking is confirmed, so no row has an event for
\* cancel to delete.
NextInsertFails ==
    \/ reserve_check_db(1, {1}, {})
    \/ reserve_check_gcal(1, {})
    \/ reserve_insert(1, {"insert"})
    \/ cancel_fetch(1)
    \/ cancel_update(1, {})
    \/ Tick

SpecInsertFails == Init /\ [][NextInsertFails]_vars

\* Two handlers confirming and cancelling the bookings one of them reserves:
\* each store and calendar call is a step, and the steps of the two interleave.
NextConfirmCancel ==
    \/ reserve_check_db(1, {1}, {})
    \/ reserve_check_gcal(1, {})
    \/ reserve_insert(1, {})
    \/ \E p \in Procs : confirm_fetch(p)
    \/ \E p \in Procs : confirm_expire(p, {})
    \/ \E p \in Procs : confirm_sync(p, {})
    \/ \E p \in Procs : confirm_update(p, {})
    \/ \E p \in Procs : cancel_fetch(p)
    \/ \E p \in Procs : cancel_update(p, {})
    \/ \E p \in Procs : cancel_delete(p, {})
    \/ Tick

SpecConfirmCancel == Init /\ [][NextConfirmCancel]_vars

\* One handler at a time, every call succeeding, on resource 3, which has a
\* calendar of its own.
NextOwnCalendar == EngineNext({1}, {3}, {})

SpecOwnCalendar == Init /\ [][NextOwnCalendar]_vars

\* Reserve and confirm within the hold, one handler at a time and every call
\* succeeding, on resource 1 (shared tenant calendar) and resource 3 (a
\* calendar of its own).
NextBothCalendars ==
    \/ reserve_check_db(1, {1, 3}, {})
    \/ reserve_check_gcal(1, {})
    \/ reserve_insert(1, {})
    \/ confirm_fetch(1)
    \/ confirm_sync(1, {})
    \/ confirm_update(1, {})
    \/ ExternalEvent({1, 3}, {TRUE})

SpecBothCalendars == Init /\ [][NextBothCalendars]_vars

\* One handler at a time, every call succeeding, on resource 4 of tenant 2,
\* which has no calendar credentials (get_service_for_tenant answers
\* use_mock = True): no call reaches a calendar.
NextMock ==
    \/ reserve_check_db(1, {4}, {})
    \/ reserve_check_gcal(1, {})
    \/ reserve_insert(1, {})
    \/ confirm_fetch(1)
    \/ confirm_expire(1, {})
    \/ confirm_sync(1, {})
    \/ confirm_update(1, {})
    \/ cancel_fetch(1)
    \/ cancel_update(1, {})
    \/ Tick

SpecMock == Init /\ [][NextMock]_vars

\* Reserves, the clock and the day listing of the conversational layer, one
\* handler at a time and every call succeeding.
NextAvailability ==
    \/ reserve_check_db(1, {1}, {})
    \/ reserve_check_gcal(1, {})
    \/ reserve_insert(1, {})
    \/ agent_check_availability(1, {1})
    \/ ExternalEvent({1}, {TRUE})
    \/ Tick

SpecAvailability == Init /\ [][NextAvailability]_vars

\* Reserve and confirm within the hold, with the update of the row able to
\* raise or return no row.
NextUpdateFails ==
    \/ reserve_check_db(1, {1}, {})
    \/ reserve_check_gcal(1, {})
    \/ reserve_insert(1, {})
    \/ confirm_fetch(1)
    \/ confirm_sync(1, {})
    \/ confirm_update(1, {"update"})

SpecUpdateFails == Init /\ [][NextUpdateFails]_vars

\* Bookings of two tenants (resource 1 of tenant 1, resource 4 of tenant 2),
\* reserved and confirmed within the hold, and the cancel endpoint called by
\* users of either tenant; every call succeeds.
NextApi ==
    \/ reserve_check_db(1, {1, 4}, {})
    \/ reserve_check_gcal(1, {})
    \/ reserve_insert(1, {})
    \/ confirm_fetch(1)
    \/ confirm_sync(1, {})
    \/ confirm_update(1, {})
    \/ cancel_appointment_api(1, Tenants)
    \/ cancel_update(1, {})
    \/ cancel_delete(1, {})

SpecApi == Init /\ [][NextApi]_vars

\* Reserves on two resources of the shared tenant calendar, 1 and 12, while
\* others place events on it.
NextShared ==
    \/ reserve_check_db(1, {1, 12}, {})
    \/ reserve_check_gcal(1, {})
    \/ reserve_insert(1, {})
    \/ ExternalEvent({1, 12}, BOOLEAN)

SpecShared == Init /\ [][NextShared]_vars

\* Reserves on resource 3, which has a calendar of its own, and on resource 1
\* of the shared calendar, while others place events on both calendars.
NextDedicated ==
    \/ reserve_check_db(1, {1, 3}, {})
    \/ reserve_check_gcal(1, {})
    \/ reserve_insert(1, {})
    \/ ExternalEvent({1, 3}, BOOLEAN)

SpecDedicated == Init /\ [][NextDedicated]_vars

\* Two handlers reserving at one instant: each store and calendar call is a
\* step, and the steps of the two interleave.
NextRace ==
    \/ \E p \in Procs : reserve_check_db(p, {1}, {})
    \/ \E p \in Procs : reserve_check_gcal(p, {})
    \/ \E p \in Procs : reserve_insert(p, {})
    \/ ExternalEvent({1}, BOOLEAN)

SpecRace == Init /\ [][NextRace]_vars

\* The webhook receiving messages, one id after the other.
NextGate == \E msg_id \in 1..MaxMsgId, is_text \in BOOLEAN : handle_webhook(msg_id, is_text)

SpecGate == Init /\ [][NextGate]_vars

\* The webhook with two requests in flight at a time.
NextGateConcurrent ==
    \/ \E p \in Procs, msg_id \in 1..MaxMsgId : webhook_receive(p, msg_id)
    \/ \E p \in Procs : webhook_dedup(p)
    \/ \E p \in Procs : webhook_process(p)

SpecGateConcurrent == Init /\ [][NextGateConcurrent]_vars

\* ------------------------------------------------------------------ claims
\* the spec's "active": confirmed, or pending with expiresAt > now
Active(b, t) ==
    \/ b.status = "confirmed"
    \/ b.status = "pending" /\ b.expires_at > t

\* two rows of one resource whose half-open intervals overlap
Clash(a, b) ==
    /\ a.resource_id = b.resource_id
    /\ a.start_time < b.end_time
    /\ b.start_time < a.end_time

\* C1: in every reachable state no two distinct bookings of one resource with
\* overlapping intervals are both active (confirmed, or pending with
\* expiresAt > now).
C1_NoDoubleBooking ==
    \A i, j \in DOMAIN appointments :
        (i < j /\ Clash(appointments[i], appointments[j]))
            => ~(Active(appointments[i], now) /\ Active(appointments[j], now))

\* a reserve of handler p that has come to its end
Decided(p, op) == call[p].op = op /\ call[p].pc = "idle" /\ call[p].result # "none"

\* C2: of two reserve calls for the same resource and interval that run at
\* the same time, exactly one inserts a pending booking; here: never both.
C2_OneReserveWins ==
    \A p, q \in Procs :
        (/\ p # q
         /\ Decided(p, "reserve") /\ Decided(q, "reserve")
         /\ call[p].resource_id = call[q].resource_id
         /\ call[p].start_time = call[q].start_time
         /\ call[p].end_time = call[q].end_time)
            => ~(call[p].result = "ok" /\ call[q].result = "ok")

\* C3: when the store holds an overlapping booking of the resource that is
\* confirmed, or pending with expiresAt > now, isFree does not return true
\* (a reserve at "insert" has had True from check_availability).
C3_ActiveBookingBlocks ==
    \A p \in Procs :
        (call[p].op = "reserve" /\ call[p].pc = "insert")
            => ~\E i \in DOMAIN appointments :
                    /\ appointments[i].resource_id = call[p].resource_id
                    /\ appointments[i].start_time < call[p].end_time
                    /\ appointments[i].end_time > call[p].start_time
                    /\ Active(appointments[i], call[p].now_iso)

\* the events of the resource's calendar that overlap the request of handler p
\* and block it
BlockingEvents(p) ==
    LET tenant_calendar_id == TenantCalendarId(call[p].tenant_id)
        target_calendar_id ==
            TargetCalendarId(call[p].tenant_id, ResourceExternalId(call[p].resource_id))
    IN  {e \in events :
            /\ e.calendarId = target_calendar_id
            /\ e.start < call[p].end_time
            /\ e.end > call[p].start_time
            /\ \/ target_calendar_id # tenant_calendar_id
               \/ ~Contains(e.description, Marker)
               \/ Contains(e.description, ResourceTag(call[p].resource_id))}

\* C4: intervals are half-open.  A reserve is refused only when a pending or
\* confirmed booking of the resource has start < end and end > start of the
\* request, or an event blocks; with every call succeeding a reserve that is
\* not refused inserts its booking, so the back-to-back one succeeds.
C4_HalfOpenIntervals ==
    \A p \in Procs :
        /\ Decided(p, "reserve") => call[p].result \in {"ok", "SlotUnavailable"}
        /\ (Decided(p, "reserve") /\ call[p].result = "SlotUnavailable")
            => \/ \E i \in DOMAIN appointments :
                    /\ appointments[i].resource_id = call[p].resource_id
                    /\ appointments[i].status \in {"pending", "confirmed"}
                    /\ appointments[i].start_time < call[p].end_time
                    /\ appointments[i].end_time > call[p].start_time
               \/ BlockingEvents(p) # {}

\* a reserve has succeeded for [e, e2) while the booking over [s, e) of the
\* same resource is confirmed
C4_Witness ==
    \E p \in Procs : \E i \in DOMAIN appointments :
        /\ Decided(p, "reserve") /\ call[p].result = "ok"
        /\ appointments[i].status = "confirmed"
        /\ appointments[i].resource_id = call[p].resource_id
        /\ appointments[i].end_time = call[p].start_time
        /\ appointments[call[p].id].status = "pending"

\* C5: lazy expiry.  A booking stored as pending whose expiresAt is earlier
\* than now does not block: a reserve is refused only when an overlapping
\* booking is confirmed or pending and not yet past its expiresAt, or an
\* event blocks.
C5_LazyExpiry ==
    \A p \in Procs :
        (Decided(p, "reserve") /\ call[p].result = "SlotUnavailable")
            => \/ \E i \in DOMAIN appointments :
                    /\ Clash(appointments[i], call[p])
                    /\ \/ appointments[i].status = "confirmed"
                       \/ /\ appointments[i].status = "pending"
                          /\ ~(appointments[i].expires_at < call[p].now_iso)
               \/ BlockingEvents(p) # {}

\* a reserve has succeeded over a booking that is still stored as pending and
\* was past its expiresAt when the reserve checked
C5_Witness ==
    \E p \in Procs : \E i \in DOMAIN appointments :
        /\ Decided(p, "reserve") /\ call[p].result = "ok"
        /\ i # call[p].id
        /\ Clash(appointments[i], call[p])
        /\ appointments[i].status = "pending"
        /\ appointments[i].expires_at < call[p].now_iso

\* C6: confirm on a pending booking with expiresAt <= now fails with Expired,
\* leaves the booking cancelled and creates no calendar event.
C6_ConfirmExpired ==
    \A p \in Procs :
        (/\ Decided(p, "confirm")
         /\ call[p].booking.status = "pending"
         /\ call[p].booking.expires_at <= call[p].now_iso)
            => /\ call[p].result = "Expired"
               /\ appointments[call[p].id].status = "cancelled"
               /\ call[p].created = 0

\* the events created for booking id
EventsOf(id) == {e \in events : e.bookingRef = id}

\* C7: confirm on a booking that is already confirmed returns it with every
\* field unchanged, writes nothing to the store and creates no event; the
\* booking has at most the one event of its first confirmation.
C7_ConfirmIdempotent ==
    \A p \in Procs :
        (call[p].op = "confirm" /\ call[p].booking.status = "confirmed")
            => /\ call[p].pc = "idle"
               /\ call[p].result = "ok"
               /\ call[p].returned = call[p].booking
               /\ appointments[call[p].id] = call[p].booking
               /\ call[p].storeWrites = 0
               /\ call[p].created = 0
               /\ Cardinality(EventsOf(call[p].id)) <= 1

\* a confirm has returned a booking it found confirmed, whose event exists
C7_Witness ==
    \E p \in Procs :
        /\ Decided(p, "confirm")
        /\ call[p].booking.status = "confirmed"
        /\ call[p].result = "ok"
        /\ Cardinality(EventsOf(call[p].id)) = 1

\* C8: a second cancel of a booking succeeds, leaves it cancelled and makes
\* no calendar deletion call.
C8_CancelIdempotent ==
    \A p \in Procs :
        (Decided(p, "cancel") /\ call[p].booking.status = "cancelled")
            => /\ call[p].result = "ok"
               /\ appointments[call[p].id].status = "cancelled"
               /\ call[p].deleteCalls = 0

\* the delivery before j that recorded the id of delivery j, 0 if none
RECURSIVE RecordedAt(_, _)
RecordedAt(j, i) ==
    IF i = 0 THEN 0
    ELSE IF deliveries[i].id = deliveries[j].id /\ ~deliveries[i].seen THEN i
    ELSE RecordedAt(j, i - 1)

\* the distinct ids recorded by the deliveries strictly between i and j
RecordedBetween(i, j) ==
    {deliveries[k].id : k \in {k \in (i + 1)..(j - 1) : ~deliveries[k].seen}}

\* C9: the first time an id is presented the gate answers not-seen and
\* records it; presenting it again while it is retained (fewer than the
\* capacity of other ids recorded since) answers seen.
C9_DedupGate ==
    /\ \A j \in DOMAIN deliveries :
        LET i == RecordedAt(j, j - 1)
        IN  /\ (\A k \in 1..(j - 1) : deliveries[k].id # deliveries[j].id)
                    => ~deliveries[j].seen
            /\ (i # 0 /\ Cardinality(RecordedBetween(i, j)) < QueueMaxLen)
                    => deliveries[j].seen
    /\ deliveries # <<>> =>
        LET last == deliveries[Len(deliveries)]
        IN  /\ last.id \in PROCESSED_IDS
            /\ ~last.seen => PROCESSED_IDS_QUEUE[Len(PROCESSED_IDS_QUEUE)] = last.id

\* an id was presented twice in a row: not-seen, then seen
C9_Witness ==
    \E j \in DOMAIN deliveries :
        /\ j > 1
        /\ deliveries[j].id = deliveries[j - 1].id
        /\ ~deliveries[j - 1].seen
        /\ deliveries[j].seen

\* C10: FIFO eviction.  Once QueueMaxLen further distinct ids have been
\* recorded after id X, presenting X again answers not-seen.
C10_FifoEviction ==
    \A j \in DOMAIN deliveries :
        LET i == RecordedAt(j, j - 1)
        IN  (i # 0 /\ Cardinality(RecordedBetween(i, j)) >= QueueMaxLen)
                => ~deliveries[j].seen

\* C11: a delivery whose message id the gate already holds causes no work for
\* that message (no inbound log, no agent call, no reply): a message answered
\* seen is not processed.
C11_DuplicateCausesNoWork ==
    \A j \in DOMAIN deliveries : deliveries[j].seen => ~deliveries[j].processed

\* the description ends with the tag of resource r, "ResourceID: <r>"
CarriesTag(description, r) ==
    LET tag == ResourceTag(r)
        n == Len(description)
    IN  n >= Len(tag) /\ SubSeq(description, n - Len(tag) + 1, n) = tag

\* the description carries the tag of no resource
Untagged(description) == \A r \in Resources : ~CarriesTag(description, r)

\* the events the list call returned to handler p that are untagged or carry
\* the tag of the resource p asked for
OwnOrUntagged(p) ==
    {e \in call[p].listed :
        Untagged(e.description) \/ CarriesTag(e.description, call[p].resource_id)}

\* C12: on the shared tenant calendar an event tagged for resource A does not
\* make isFree false for another resource B, an untagged event makes it false
\* for every resource and an event tagged for A makes it false for A: with an
\* empty store a reserve is refused exactly when a listed event is untagged or
\* carries the tag of the resource asked for.
C12_SharedCalendarTags ==
    \A p \in Procs :
        (/\ call[p].op = "reserve"
         /\ ~LooksLikeCalendar(ResourceExternalId(call[p].resource_id))
         /\ OverlappingRows(call[p].tenant_id, call[p].resource_id,
                            call[p].start_time, call[p].end_time) = {})
            => /\ call[p].result = "SlotUnavailable" => OwnOrUntagged(p) # {}
               /\ call[p].pc = "insert" => OwnOrUntagged(p) = {}

\* C13: if the calendar query fails for any reason, isFree does not fail: it
\* returns the verdict of the store (true, the query being reached only then)
\* and reserve goes on to insert the pending booking.
C13_CalendarFailureIgnored ==
    \A p \in Procs :
        (call[p].op = "reserve" /\ call[p].listFailed)
            => \/ call[p].pc = "insert"
               \/ call[p].pc = "idle" /\ call[p].result = "ok"

\* C14: isFree is fail-closed on the store: when the overlap query fails,
\* isFree does not return true and reserve inserts no booking.
C14_StoreFailureClosed ==
    \A p \in Procs :
        (call[p].op = "reserve" /\ call[p].queryFailed)
            => /\ call[p].pc # "insert"
               /\ call[p].result # "ok"

\* C15: a reserve that finds isFree false fails with SlotUnavailable, inserts
\* no row and leaves the store and the calendar as they were: it has issued
\* no write to the store and no call that creates or deletes an event, and
\* every overlapping row of the resource is one whose hold began no later
\* than the check.
C15_RefusedReserveWritesNothing ==
    \A p \in Procs :
        (call[p].op = "reserve" /\ call[p].is_free = "False")
            => /\ call[p].pc = "idle"
               /\ call[p].result = "SlotUnavailable"
               /\ call[p].returned = NoRow
               /\ call[p].storeWrites = 0
               /\ call[p].created = 0
               /\ call[p].deleteCalls = 0
               /\ \A i \in DOMAIN appointments :
                    Clash(appointments[i], call[p])
                        => appointments[i].expires_at <= call[p].now_iso + HoldMinutes

\* a reserve was refused while the store holds a booking
C15_Witness ==
    \E p \in Procs :
        /\ Decided(p, "reserve")
        /\ call[p].is_free = "False"
        /\ call[p].result = "SlotUnavailable"
        /\ appointments # <<>>

\* C16: a reserve that finds isFree true inserts one new booking with status
\* pending, expiresAt = now + 5 minutes, no externalEventRef and the tenant,
\* resource, customer and interval asked for, and returns it; it creates no
\* calendar event.
C16_ReserveInsertsPending ==
    \A p \in Procs :
        (call[p].op = "reserve" /\ call[p].is_free = "True" /\ call[p].pc = "idle")
            => /\ call[p].result = "ok"
               /\ call[p].storeWrites = 1
               /\ call[p].created = 0
               /\ call[p].id \in DOMAIN appointments
               /\ appointments[call[p].id] = call[p].returned
               /\ call[p].returned.id = call[p].id
               /\ call[p].returned.status = "pending"
               /\ call[p].returned.expires_at = call[p].now_utc + HoldMinutes
               /\ call[p].now_iso <= call[p].now_utc /\ call[p].now_utc <= now
               /\ call[p].returned.google_event_id = NoEventId
               /\ call[p].returned.tenant_id = call[p].tenant_id
               /\ call[p].returned.resource_id = call[p].resource_id
               /\ call[p].returned.customer_name = call[p].customer_name
               /\ call[p].returned.customer_phone = call[p].customer_phone
               /\ call[p].returned.start_time = call[p].start_time
               /\ call[p].returned.end_time = call[p].end_time
               /\ EventsOf(call[p].id) = {}

\* a reserve has inserted a second booking, after the clock had moved
C16_Witness ==
    \E p \in Procs :
        /\ Decided(p, "reserve")
        /\ call[p].result = "ok"
        /\ call[p].id = 2
        /\ call[p].now_utc > 0

\* C17: confirm on a cancelled booking fails with InvalidState, leaves the
\* booking cancelled with every field unchanged and creates no calendar event.
C17_ConfirmCancelled ==
    \A p \in Procs :
        (call[p].op = "confirm" /\ call[p].booking.status = "cancelled")
            => /\ call[p].pc = "idle"
               /\ call[p].result = "InvalidState"
               /\ appointments[call[p].id] = call[p].booking
               /\ call[p].storeWrites = 0
               /\ call[p].created = 0

\* a confirm has ended on a booking it found cancelled, in its hold time
C17_Witness ==
    \E p \in Procs :
        /\ Decided(p, "confirm")
        /\ call[p].booking.status = "cancelled"
        /\ call[p].booking.expires_at > call[p].now_iso

\* C18: if the projection fails during confirm of an unexpired pending
\* booking, confirm still succeeds: the booking ends confirmed with no
\* externalEventRef, nothing is rolled back, and a later confirm of that
\* booking does not call the projection again.
C18_ProjectionFailureTolerated ==
    \A p \in Procs :
        /\ (call[p].op = "confirm" /\ call[p].syncFailed)
            => \/ call[p].pc = "c_update"
               \/ /\ call[p].pc = "idle"
                  /\ call[p].result = "ok"
                  /\ call[p].returned.status = "confirmed"
                  /\ call[p].returned.google_event_id = NoEventId
                  /\ appointments[call[p].id] = call[p].returned
                  /\ EventsOf(call[p].id) = {}
        /\ (/\ call[p].op = "confirm"
            /\ call[p].booking.status = "confirmed"
            /\ call[p].booking.google_event_id = NoEventId)
            => /\ call[p].pc = "idle"
               /\ call[p].result = "ok"
               /\ call[p].syncCalls = 0
               /\ EventsOf(call[p].id) = {}

\* a confirm has returned a booking it found confirmed without an event id:
\* the projection of its first confirm had failed
C18_Witness ==
    \E p \in Procs :
        /\ Decided(p, "confirm")
        /\ call[p].booking.status = "confirmed"
        /\ call[p].booking.google_event_id = NoEventId
        /\ call[p].result = "ok"

\* C19: cancel of an existing booking sets its status to cancelled whatever
\* the status was (pending, pending past its expiry, confirmed) and reports
\* success; when the booking has an externalEventRef and the removal of the
\* event fails, cancel still reports success and the booking stays cancelled.
C19_CancelAlwaysCancels ==
    \A p \in Procs :
        (call[p].op = "cancel" /\ call[p].booking # NoRow)
            => /\ call[p].pc \in {"x_update", "x_delete", "idle"}
               /\ call[p].pc # "x_update"
                    => appointments[call[p].id] =
                            [call[p].booking EXCEPT !.status = "cancelled"]
               /\ call[p].pc = "idle" => call[p].result = "ok"

\* cancel has reported success on a confirmed booking whose event is still on
\* the calendar: the removal failed
C19_Witness ==
    \E p \in Procs :
        /\ Decided(p, "cancel")
        /\ call[p].booking.status = "confirmed"
        /\ call[p].deleteFailed
        /\ call[p].result = "ok"
        /\ \E e \in events : e.id = call[p].booking.google_event_id

\* C20: confirm and cancel called with a booking id that is not in the store
\* fail with NotFound and change neither the store nor the calendar: they
\* issue no write to the store and no call that creates or deletes an event.
C20_UnknownIdNotFound ==
    \A p \in Procs :
        (call[p].op \in {"confirm", "cancel"} /\ call[p].id \notin DOMAIN appointments)
            => /\ call[p].pc = "idle"
               /\ call[p].result = "NotFound"
               /\ call[p].booking = NoRow
               /\ call[p].storeWrites = 0
               /\ call[p].syncCalls = 0
               /\ call[p].created = 0
               /\ call[p].deleteCalls = 0

\* a cancel of an id the store does not hold has ended, the store holding
\* another booking
C20_Witness ==
    \E p \in Procs :
        /\ Decided(p, "cancel")
        /\ call[p].id \notin DOMAIN appointments
        /\ call[p].result = "NotFound"
        /\ appointments # <<>>

\* the deliveries of message id that the gate answered not-seen
FirstAnswers(id) ==
    {j \in DOMAIN deliveries : deliveries[j].id = id /\ ~deliveries[j].seen}

\* C21: the check-and-insert of the gate is atomic under concurrent
\* deliveries.  When two requests in flight present the same new id, exactly
\* one is answered not-seen and the id is recorded once: every recorded id
\* has one not-seen answer and one place in the queue, and no other id has a
\* not-seen answer.
C21_AtomicCheckAndInsert ==
    /\ \A id \in 1..MaxMsgId :
            Cardinality(FirstAnswers(id)) = IF id \in PROCESSED_IDS THEN 1 ELSE 0
    /\ \A i, j \in DOMAIN PROCESSED_IDS_QUEUE :
            PROCESSED_IDS_QUEUE[i] = PROCESSED_IDS_QUEUE[j] => i = j

\* two requests carrying the same id, which was new when both arrived, are
\* both past the gate and still in flight
C21_Witness ==
    /\ requests[1].pc = "process" /\ requests[2].pc = "process"
    /\ requests[1].msg_id = requests[2].msg_id
    /\ requests[1].msg_id \notin requests[1].cache
    /\ requests[2].msg_id \notin requests[2].cache

C23_RejectedInsertLeavesNoRow ==
    \A p \in Procs :
        (call[p].op = "reserve" /\ call[p].insertFailed)
            => /\ call[p].pc = "idle"
               /\ call[p].result = "Error"
               /\ call[p].returned = NoRow
               /\ call[p].id = 0
               /\ ~\E i \in DOMAIN appointments :
                    /\ appointments[i].resource_id = call[p].resource_id
                    /\ appointments[i].start_time = call[p].start_time
                    /\ appointments[i].end_time = call[p].end_time
                    /\ appointments[i].status = "pending"
                    /\ appointments[i].expires_at = call[p].now_utc + HoldMinutes

\* a reserve has failed at its insert while the store holds an earlier
\* booking of the same interval
C23_Witness ==
    \E p \in Procs : \E i \in DOMAIN appointments :
        /\ Decided(p, "reserve")
        /\ call[p].insertFailed
        /\ appointments[i].start_time = call[p].start_time

\* C24: cancelled is terminal.  Under any interleaving of confirm and cancel
\* on a booking, once its stored status is cancelled no step changes it.
C24_CancelledIsTerminal ==
    [][\A i \in DOMAIN appointments :
            appointments[i].status = "cancelled"
                => appointments'[i].status = "cancelled"]_vars

\* C25: under any interleaving of concurrent confirm calls on one pending
\* booking, at most one calendar event is ever created for that booking.
C25_OneEventPerBooking ==
    \A i \in DOMAIN appointments : Cardinality(EventsOf(i)) <= 1

\* C26: cancel of a confirmed booking with an externalEventRef deletes on the
\* calendar on which confirm created the event, so that with every call
\* succeeding the event is gone after cancel (and no longer blocks the
\* resource and interval).
C26_CancelRemovesEvent ==
    \A p \in Procs :
        (/\ Decided(p, "cancel")
         /\ call[p].result = "ok"
         /\ call[p].booking.status = "confirmed"
         /\ call[p].booking.google_event_id # NoEventId)
            => ~\E e \in events : e.id = call[p].booking.google_event_id

\* C27: hold continuity.  From the return of reserve for booking B until B is
\* cancelled or, if B is never confirmed, until now reaches B.expiresAt, every
\* reserve of the resource for an overlapping interval fails.  So of two
\* overlapping bookings of a resource the earlier is never confirmed (it was
\* in its hold when the later one was taken), and while it is pending the
\* later one was inserted at or after its expiresAt.
C27_HoldContinuity ==
    \A i, j \in DOMAIN appointments :
        (i < j /\ Clash(appointments[i], appointments[j]))
            => /\ appointments[i].status # "confirmed"
               /\ appointments[i].status = "pending"
                    => appointments[j].expires_at - HoldMinutes
                            >= appointments[i].expires_at

\* the row holds an expires_at: the instant a hold of HoldMinutes ends
HasExpiry(booking) == booking.expires_at \in {t + HoldMinutes : t \in Instants}

\* C28: in every reachable state a booking whose status is confirmed or
\* cancelled has no expiresAt value: expiresAt is set only while the booking
\* is pending.
C28_ExpiryOnlyWhilePending ==
    \A i \in DOMAIN appointments :
        appointments[i].status \in {"confirmed", "cancelled"}
            => ~HasExpiry(appointments[i])

\* C29: in every reachable state a booking has a non-empty externalEventRef
\* only if it has been confirmed, and the reference identifies an event that
\* was created on the calendar for it (an id the calendar has handed out; the
\* event of that id, while it exists, is the one created for this booking);
\* a pending booking has no externalEventRef.
C29_EventRefIsReal ==
    \A i \in DOMAIN appointments :
        appointments[i].google_event_id # NoEventId
            => /\ appointments[i].status \in {"confirmed", "cancelled"}
               /\ \E n \in 1..(nextEventId - 1) :
                    appointments[i].google_event_id = EventId(n)
               /\ \A e \in events :
                    e.id = appointments[i].google_event_id => e.bookingRef = i

\* the events the engine created for bookings of resource r
ProjectedFor(r) ==
    {e \in events : e.bookingRef # 0 /\ appointments[e.bookingRef].resource_id = r}

C31_ReadersSkipExpired ==
    \A p \in Procs :
        call[p].op = "availability" =>
            \A slot \in call[p].busy_slots :
                (slot.row # 0 /\ slot.label = "pending")
                    => ~(appointments[slot.row].expires_at < call[p].now_iso)

\* C32: the local store wins over its projection: when a booking is cancelled
\* in the store while its projected event still exists (the removal failed),
\* isFree for that resource and interval returns true if no other active
\* booking and no other external event overlaps.  A reserve that the calendar
\* check refused was refused by a listed event other than the projection of
\* a cancelled booking.
C32_StoreWinsOverProjection ==
    \A p \in Procs :
        (call[p].op = "reserve" /\ call[p].is_free = "False"
                                /\ call[p].listed # {})
            => \E e \in call[p].listed :
                ~(/\ e.bookingRef # 0
                  /\ appointments[e.bookingRef].status = "cancelled")

\* a step of check_availability by handler p: the store query and its loop,
\* or the calendar listing and its loop
CheckStep(p) ==
    \/ /\ ~InFlight(p)
       /\ call'[p].op = "reserve"
       /\ call'[p] # call[p]
       /\ Len(appointments') = Len(appointments)
    \/ /\ call[p].pc = "check_gcal"
       /\ call'[p].pc # "check_gcal"

\* C33: isFree is read-only and no operation writes the status expired: a
\* step of isFree leaves every booking row and the external calendar
\* unchanged, and after every step each stored status is one of pending,
\* confirmed, cancelled.
C33_IsFreeReadOnly ==
    [][/\ \A i \in DOMAIN appointments' :
            appointments'[i].status \in {"pending", "confirmed", "cancelled"}
       /\ (\E p \in Procs : CheckStep(p))
            => (appointments' = appointments /\ events' = events)]_vars

\* isFree has answered while a pending row past its expiry overlapped the
\* request, and the row is still pending
C33_Witness ==
    \E p \in Procs :
        /\ call[p].op = "reserve" /\ call[p].is_free = "True"
        /\ \E i \in DOMAIN appointments :
            /\ appointments[i].status = "pending"
            /\ appointments[i].expires_at < call[p].now_iso
            /\ appointments[i].resource_id = call[p].resource_id
            /\ Overlaps(appointments[i].start_time, appointments[i].end_time,
                        call[p].start_time, call[p].end_time)
            /\ call[p].pc = "insert"

C35_GateBounded ==
    /\ PROCESSED_IDS =
            {PROCESSED_IDS_QUEUE[k] : k \in DOMAIN PROCESSED_IDS_QUEUE}
    /\ Cardinality(PROCESSED_IDS) <= QueueMaxLen

\* C36: no orphan projection: every event the engine created in the external
\* calendar is referenced by the externalEventRef of a booking whose status
\* is confirmed or cancelled, also when the store update that marks the
\* booking confirmed fails after the event was created.  (While the confirm
\* that created the event is still running, the reference is not due yet.)
C36_NoOrphanProjection ==
    \A e \in events :
        e.bookingRef # 0 =>
            \/ \E p \in Procs : /\ InFlight(p)
                                /\ call[p].op = "confirm"
                                /\ call[p].id = e.bookingRef
            \/ /\ appointments[e.bookingRef].google_event_id = e.id
               /\ appointments[e.bookingRef].status \in {"confirmed", "cancelled"}

\* handler p answers a call of the cancel endpoint in this step
ApiStep(p) ==
    /\ ~InFlight(p)
    /\ call'[p].caller # 0
    /\ call'[p] # call[p]

\* a cancel of booking i by a user of the booking's tenant is running
OwnerCancels(i) ==
    \E p \in Procs : /\ call[p].op = "cancel" /\ call[p].id = i
                      /\ InFlight(p)
                      /\ call[p].caller = appointments[i].tenant_id

\* C37: the tenant-facing cancel endpoint cancels a booking only when it
\* belongs to the caller's tenant: for a booking of another tenant it answers
\* not-authorized and leaves the booking's status and its external event
\* unchanged, and for an unknown id it answers not-found.  Every call with an
\* unknown id ends with NotFound, every call on another tenant's booking ends
\* with NotAuthorized, and a booking is cancelled or loses its event only in
\* a cancel run by a user of its own tenant.
C37_CancelOnlyOwnTenant ==
    [][/\ \A p \in Procs :
            ApiStep(p) =>
                LET id == call'[p].id
                IN  /\ id \notin DOMAIN appointments
                        => (call'[p].result = "NotFound" /\ ~InFlight(p)')
                    /\ (id \in DOMAIN appointments
                            /\ appointments[id].tenant_id # call'[p].caller)
                        => (call'[p].result = "NotAuthorized" /\ ~InFlight(p)')
       /\ \A i \in DOMAIN appointments :
            (appointments[i].status # "cancelled"
                /\ appointments'[i].status = "cancelled") => OwnerCancels(i)
       /\ \A e \in events \ events' :
            e.bookingRef # 0 => OwnerCancels(e.bookingRef)]_vars

\* a user of another tenant was answered not-authorized for a confirmed
\* booking, which is still confirmed and still has its event
C37_Witness ==
    \E p \in Procs :
        /\ call[p].op = "cancel" /\ call[p].result = "NotAuthorized"
        /\ call[p].id \in DOMAIN appointments
        /\ appointments[call[p].id].status = "confirmed"
        /\ \E e \in events : e.bookingRef = call[p].id

====
